---- MODULE Spec2Model ----
(***************************************************************************)
(* Model of the paper trading engine, class PaperTradingSystem of          *)
(* src/src/trading/paperTradingSystem.ts (lines 1-361).                    *)
(*                                                                         *)
(* Numbers.  The engine computes in IEEE doubles; the model computes in    *)
(* exact integers.  Money (balance, tradeValue, commissionAmount) is held  *)
(* in thousandths of a currency unit, prices and quantities in whole       *)
(* units, and the commission rate in tenths of a percent, so that          *)
(*   tradeValue       = price * quantity * 1000                           *)
(*   commissionAmount = tradeValue * (commission / 100)                    *)
(*                    = tradeValue * Commission / 1000                     *)
(* is an exact integer.  Rounding of doubles is outside the model.         *)
(*                                                                         *)
(* The fields timestamp and strategy of positions, trades and orders are   *)
(* copied through by the code and never read by it; the model omits them.  *)
(* An order id is `LO_${++orderIdCounter}_${Date.now()}`; the model keeps  *)
(* the counter part, which alone makes the id unique.                      *)
(***************************************************************************)
EXTENDS Integers, Sequences, FiniteSets, TLC

VARIABLES portfolio, orderIdCounter, last

vars == <<portfolio, orderIdCounter, last>>

(***************************************************************************)
(* Bounds of the exploration and the configuration of the instance.        *)
(***************************************************************************)
\* config.initialBalance, in thousandths: 3 currency units and 3 thousandths,
\* what buying three units at price 1 costs with commission
InitialBalance == 3003
\* config.commission in tenths of a percent: 1 stands for 0.1 (percent)
Commission == 1
\* executeTrade is explored while trades + issued order ids stay within
\* MaxOps (orders as documented) or MaxAnyOps (every order the validator
\* lets through)
MaxOps == 3
MaxAnyOps == 2

Symbols == {"BTC", "ETH"}
Actions == {"BUY", "SELL"}
\* price: number
Prices == {1, 2}
\* quantity: number, as the documented callers send it
Quantities == {1, 2}
\* limitPrice?: number - an optional value: Absent stands for undefined,
\* Present(n) for the number n
Absent == <<>>
Present(n) == <<n>>
LimitPrices == {Absent} \cup {Present(n) : n \in Prices}

\* validateWebhook (src/src/utils/validators.ts, lines 35-36) only requires
\* typeof price === 'number' and typeof quantity === 'number', and does not
\* look at limitPrice: zero and negative numbers reach the engine
AnyQuantities == {-1, 0, 1, 2}
AnyLimitPrices == {Absent} \cup {Present(n) : n \in {0} \cup Prices}
\* how the engine treats such numbers does not depend on the symbol
AnySymbols == {"BTC"}

NoError == "none"
MissingLimitPrice == "Limit price is required for limit orders"
InsufficientBalanceLimit == "Insufficient balance to create buy limit order"
InsufficientPosition == "Insufficient position to create sell limit order"
InsufficientBalance == "Insufficient balance to execute buy order"
NoMatchingPosition == "No matching position found"

(***************************************************************************)
(* Results of a private method: the portfolio as the method left it and    *)
(* the error thrown, if any.                                               *)
(***************************************************************************)
Ok(pf) == [pf |-> pf, err |-> NoError]
Throw(pf, e) == [pf |-> pf, err |-> e]

\* const tradeValue = price * quantity   (in thousandths)
TradeValue(price, quantity) == price * quantity * 1000

\* the rate taken as a fraction: tradeValue * this.commission
CommissionAmount_Fraction(tradeValue) == (tradeValue * Commission) \div 10

\* const commissionAmount = tradeValue * (this.commission / 100)
CommissionAmount(tradeValue) == (tradeValue * Commission) \div 1000

\* JavaScript !limitPrice : true for undefined and for 0
Falsy(limitPrice) == limitPrice = Absent \/ limitPrice = Present(0)

RECURSIVE SumQuantity(_)
\* .reduce((sum, x) => sum + x.quantity, 0)
SumQuantity(s) ==
    IF s = <<>> THEN 0 ELSE Head(s).quantity + SumQuantity(Tail(s))

\* the search returning the last qualifying position instead of the first
FindIndex_Last(positions, symbol, quantity) ==
    LET hits == {i \in 1..Len(positions) :
                    /\ positions[i].symbol = symbol
                    /\ positions[i].quantity >= quantity}
    IN IF hits = {} THEN 0
       ELSE CHOOSE i \in hits : \A j \in hits : i >= j

\* the search without pos.symbol === symbol: the first position large enough
FindIndex_AnySymbol(positions, symbol, quantity) ==
    LET hits == {i \in 1..Len(positions) : positions[i].quantity >= quantity}
    IN IF hits = {} THEN 0
       ELSE CHOOSE i \in hits : \A j \in hits : i <= j

\* positions.findIndex(pos => pos.symbol === symbol && pos.quantity >= quantity)
\* 1-based; 0 stands for -1
FindIndex(positions, symbol, quantity) ==
    LET hits == {i \in 1..Len(positions) :
                    /\ positions[i].symbol = symbol
                    /\ positions[i].quantity >= quantity}
    IN IF hits = {} THEN 0
       ELSE CHOOSE i \in hits : \A j \in hits : i <= j

\* positions.splice(index, 1)
Splice(s, index) ==
    [i \in 1..(Len(s) - 1) |-> IF i < index THEN s[i] ELSE s[i + 1]]


\* the check with <= for <: an order costing the whole balance is refused
InsufficientFunds_OrEqual(balance, amount) == balance <= amount

\* this.portfolio.balance < tradeValue + commissionAmount   (lines 127, 185)
InsufficientFunds(balance, amount) == balance < amount

\* the update without the removal branch: a fully sold position stays, at 0
ReducePosition_NeverRemove(positions, index, quantity) ==
    [positions EXCEPT ![index].quantity = @ - quantity]

\* lines 216-222: remove the position if fully sold, else reduce it in place
ReducePosition(positions, index, quantity) ==
    IF positions[index].quantity = quantity
    THEN Splice(positions, index)
    ELSE [positions EXCEPT ![index].quantity = @ - quantity]

(***************************************************************************)
(* executeMarketOrder, lines 171-236.  Each LET step is one statement of   *)
(* the method, in the order the method runs them.                          *)
(***************************************************************************)
ExecuteMarketOrder(pf, symbol, action, price, quantity) ==
    LET tradeValue == TradeValue(price, quantity)
        commissionAmount == CommissionAmount(tradeValue)
        trade == [symbol |-> symbol, action |-> action, price |-> price,
                  quantity |-> quantity, commission |-> commissionAmount,
                  orderType |-> "MARKET"]
    IN IF action = "BUY"
       THEN IF InsufficientFunds(pf.balance, tradeValue + commissionAmount)
            THEN Throw(pf, InsufficientBalance)
            ELSE LET pushed == [pf EXCEPT !.positions =
                                   Append(@, [symbol |-> symbol,
                                              entryPrice |-> price,
                                              quantity |-> quantity])]
                     debited == [pushed EXCEPT !.balance =
                                   @ - (tradeValue + commissionAmount)]
                 IN Ok([debited EXCEPT !.trades = Append(@, trade)])
       ELSE LET positionIndex == FindIndex(pf.positions, symbol, quantity)
            IN IF positionIndex = 0
               THEN Throw(pf, NoMatchingPosition)
               ELSE LET credited == [pf EXCEPT !.balance =
                                       @ + price * quantity * 1000
                                         - commissionAmount]
                        reduced == [credited EXCEPT !.positions =
                                       ReducePosition(@, positionIndex, quantity)]
                    IN Ok([reduced EXCEPT !.trades = Append(@, trade)])

\* the re-tagging of lines 294-297 done in a finally block: it also runs
\* when executeMarketOrder threw, on whatever trade is last in the log
ExecuteLimitOrder_RetagOnFailure(pf, order, executionPrice) ==
    LET r == ExecuteMarketOrder(pf, order.symbol, order.action,
                                executionPrice, order.quantity)
        n == Len(r.pf.trades)
    IN IF n > 0
       THEN [pf |-> [r.pf EXCEPT !.trades[n].orderType = "LIMIT"],
             err |-> r.err]
       ELSE r

\* the fill of a BUY charged as if made at the limit price: the price
\* improvement (limitPrice - executionPrice) * quantity, with its commission,
\* is taken from the balance as well
ExecuteLimitOrder_ChargeLimitPrice(pf, order, executionPrice) ==
    LET r == ExecuteMarketOrder(pf, order.symbol, order.action,
                                executionPrice, order.quantity)
        n == Len(r.pf.trades)
        improvement == TradeValue(order.limitPrice - executionPrice,
                                  order.quantity)
    IN IF r.err # NoError THEN r
       ELSE Ok([r.pf EXCEPT
                  !.trades[n].orderType = "LIMIT",
                  !.balance = IF order.action = "BUY"
                              THEN @ - (improvement
                                        + CommissionAmount(improvement))
                              ELSE @])

\* the fill made at the limit price of the order instead of the price of
\* the tick
ExecuteLimitOrder_AtLimitPrice(pf, order, executionPrice) ==
    LET r == ExecuteMarketOrder(pf, order.symbol, order.action,
                                order.limitPrice, order.quantity)
        n == Len(r.pf.trades)
    IN IF r.err # NoError THEN r
       ELSE Ok([r.pf EXCEPT !.trades[n].orderType = "LIMIT"])

\* the fill that updates the balance and the positions and leaves no trade
\* in the log
ExecuteLimitOrder_NotLogged(pf, order, executionPrice) ==
    LET r == ExecuteMarketOrder(pf, order.symbol, order.action,
                                executionPrice, order.quantity)
    IN IF r.err # NoError THEN r
       ELSE Ok([r.pf EXCEPT !.trades = pf.trades])

(***************************************************************************)
(* executeLimitOrder, lines 283-298: a market execution at the execution   *)
(* price, then the last trade is re-tagged LIMIT.  A throw of              *)
(* executeMarketOrder propagates.                                          *)
(***************************************************************************)
ExecuteLimitOrder(pf, order, executionPrice) ==
    LET r == ExecuteMarketOrder(pf, order.symbol, order.action,
                                executionPrice, order.quantity)
        n == Len(r.pf.trades)
    IN IF r.err # NoError THEN r
       ELSE IF n > 0
            THEN Ok([r.pf EXCEPT !.trades[n].orderType = "LIMIT"])
            ELSE r

\* the trigger condition without the price comparisons of lines 252, 254
ShouldExecute_AnyPrice(order, currentPrice) ==
    order.action = "BUY" \/ order.action = "SELL"

\* lines 250-256: the trigger condition of a pending order
ShouldExecute(order, currentPrice) ==
    \/ order.action = "BUY" /\ currentPrice <= order.limitPrice
    \/ order.action = "SELL" /\ currentPrice >= order.limitPrice

\* the collection without line 248: the orders of every symbol are checked
\* against the price
OrdersToExecute_AnySymbol(pf, symbol, currentPrice) ==
    SelectSeq(pf.pendingLimitOrders,
              LAMBDA order : ShouldExecute(order, currentPrice))

\* lines 244-261: the pending orders of the symbol whose trigger holds
OrdersToExecute(pf, symbol, currentPrice) ==
    SelectSeq(pf.pendingLimitOrders,
              LAMBDA order : order.symbol = symbol
                             /\ ShouldExecute(order, currentPrice))

\* the executed order not taken out of the pending orders
RemoveOrder_Keep(pending, id) == pending

\* lines 268-270: pendingLimitOrders.filter(pending => pending.id !== id)
RemoveOrder(pending, id) == SelectSeq(pending, LAMBDA o : o.id # id)

RECURSIVE ExecuteOrders_StopAtFailure(_, _, _, _)
\* the loop with the try/catch around it instead of inside it: the first
\* failure is reported and ends the pass
ExecuteOrders_StopAtFailure(pf, orders, currentPrice, warned) ==
    IF orders = <<>> THEN [pf |-> pf, warned |-> warned]
    ELSE LET order == Head(orders)
             r == ExecuteLimitOrder(pf, order, currentPrice)
         IN IF r.err = NoError
            THEN ExecuteOrders_StopAtFailure(
                   [r.pf EXCEPT !.pendingLimitOrders = RemoveOrder(@, order.id)],
                   Tail(orders), currentPrice, warned)
            ELSE [pf |-> r.pf, warned |-> Append(warned, order.id)]

RECURSIVE ExecuteOrders(_, _, _, _)
(***************************************************************************)
(* lines 263-275: the loop over ordersToExecute.  A throw is caught: the   *)
(* order id is reported with console.warn (warned) and the order stays in  *)
(* pendingLimitOrders.                                                     *)
(***************************************************************************)
ExecuteOrders(pf, orders, currentPrice, warned) ==
    IF orders = <<>> THEN [pf |-> pf, warned |-> warned]
    ELSE LET order == Head(orders)
             r == ExecuteLimitOrder(pf, order, currentPrice)
         IN IF r.err = NoError
            THEN ExecuteOrders(
                   [r.pf EXCEPT !.pendingLimitOrders = RemoveOrder(@, order.id)],
                   Tail(orders), currentPrice, warned)
            ELSE ExecuteOrders(r.pf, Tail(orders), currentPrice,
                               Append(warned, order.id))

\* the resolution running the loop of lines 264-275 from the newest
\* collected order to the oldest
CheckAndExecuteLimitOrders_NewestFirst(pf, symbol, currentPrice) ==
    LET orders == OrdersToExecute(pf, symbol, currentPrice)
        reversed == [i \in 1..Len(orders) |-> orders[Len(orders) + 1 - i]]
    IN ExecuteOrders(pf, reversed, currentPrice, <<>>)

\* checkAndExecuteLimitOrders, lines 243-276
CheckAndExecuteLimitOrders(pf, symbol, currentPrice) ==
    ExecuteOrders(pf, OrdersToExecute(pf, symbol, currentPrice),
                  currentPrice, <<>>)

\* the availability check without lines 138-141: resting sells not counted
PendingSells_None(pf, symbol) == <<>>

\* the pending SELL orders of a symbol, lines 139-140
PendingSells(pf, symbol) ==
    SelectSeq(pf.pendingLimitOrders,
              LAMBDA o : o.symbol = symbol /\ o.action = "SELL")

\* the positions of a symbol, lines 134-135
PositionsOf(pf, symbol) ==
    SelectSeq(pf.positions, LAMBDA pos : pos.symbol = symbol)

\* the id built without the increment: `LO_${this.orderIdCounter}_...`
GenerateOrderId_NoIncrement(counter) == counter

\* generateOrderId, lines 304-306: `LO_${++this.orderIdCounter}_${Date.now()}`.
\* The value is the incremented counter, which is also the counter part of
\* the id.
GenerateOrderId(counter) == counter + 1

\* createLimitOrder debiting the funds of a BUY order when it is created, as
\* docs/PERFORMANCE_ANALYTICS.md describes it
CreateLimitOrder_Reserving(pf, counter, symbol, action, quantity, limitPrice) ==
    LET tradeValue == TradeValue(limitPrice, quantity)
        commissionAmount == CommissionAmount(tradeValue)
        totalAvailableQuantity == SumQuantity(PositionsOf(pf, symbol))
        pendingSellQuantity == SumQuantity(PendingSells(pf, symbol))
        limitOrder == [id |-> GenerateOrderId(counter), symbol |-> symbol,
                       action |-> action, quantity |-> quantity,
                       limitPrice |-> limitPrice]
    IN IF action = "BUY"
          /\ InsufficientFunds(pf.balance, tradeValue + commissionAmount)
       THEN [pf |-> pf, counter |-> counter, err |-> InsufficientBalanceLimit]
       ELSE IF action = "SELL"
               /\ totalAvailableQuantity < quantity + pendingSellQuantity
       THEN [pf |-> pf, counter |-> counter, err |-> InsufficientPosition]
       ELSE [pf |-> [pf EXCEPT
                       !.balance = IF action = "BUY"
                                   THEN @ - (tradeValue + commissionAmount)
                                   ELSE @,
                       !.pendingLimitOrders = Append(@, limitOrder)],
             counter |-> GenerateOrderId(counter), err |-> NoError]

(***************************************************************************)
(* createLimitOrder, lines 114-160.  The result carries the new value of   *)
(* orderIdCounter: generateOrderId (line 305) runs only after the checks.  *)
(***************************************************************************)
CreateLimitOrder(pf, counter, symbol, action, quantity, limitPrice) ==
    LET tradeValue == TradeValue(limitPrice, quantity)
        commissionAmount == CommissionAmount(tradeValue)
        totalAvailableQuantity == SumQuantity(PositionsOf(pf, symbol))
        pendingSellQuantity == SumQuantity(PendingSells(pf, symbol))
        limitOrder == [id |-> GenerateOrderId(counter), symbol |-> symbol,
                       action |-> action, quantity |-> quantity,
                       limitPrice |-> limitPrice]
    IN IF action = "BUY"
          /\ InsufficientFunds(pf.balance, tradeValue + commissionAmount)
       THEN [pf |-> pf, counter |-> counter, err |-> InsufficientBalanceLimit]
       ELSE IF action = "SELL"
               /\ totalAvailableQuantity < quantity + pendingSellQuantity
       THEN [pf |-> pf, counter |-> counter, err |-> InsufficientPosition]
       ELSE [pf |-> [pf EXCEPT !.pendingLimitOrders = Append(@, limitOrder)],
             counter |-> GenerateOrderId(counter), err |-> NoError]

\* executeTrade without line 99: a MARKET order is executed and the pending
\* orders are left for the next call of updateMarketPrice
ExecuteTradeResult_NoResolve(pf, counter, trade) ==
    IF trade.orderType = "LIMIT"
    THEN IF Falsy(trade.limitPrice)
         THEN [pf |-> pf, counter |-> counter, err |-> MissingLimitPrice,
               warned |-> <<>>]
         ELSE LET c == CreateLimitOrder(pf, counter, trade.symbol,
                                        trade.action, trade.quantity,
                                        trade.limitPrice[1])
              IN [pf |-> c.pf, counter |-> c.counter, err |-> c.err,
                  warned |-> <<>>]
    ELSE LET m == ExecuteMarketOrder(pf, trade.symbol, trade.action,
                                     trade.price, trade.quantity)
         IN [pf |-> m.pf, counter |-> counter, err |-> m.err,
             warned |-> <<>>]

\* executeTrade resolving the pending orders at the webhook price right after
\* a LIMIT order was created (line 99 run on the LIMIT branch too)
ExecuteTradeResult_ResolveAfterCreate(pf, counter, trade) ==
    LET symbol == trade.symbol
        action == trade.action
        price == trade.price
        quantity == trade.quantity
        orderType == trade.orderType
        limitPrice == trade.limitPrice
    IN
    IF orderType = "LIMIT"
    THEN IF Falsy(limitPrice)
         THEN [pf |-> pf, counter |-> counter, err |-> MissingLimitPrice,
               warned |-> <<>>]
         ELSE LET c == CreateLimitOrder(pf, counter, symbol, action,
                                        quantity, limitPrice[1])
                  t == CheckAndExecuteLimitOrders(c.pf, symbol, price)
              IN IF c.err # NoError
                 THEN [pf |-> c.pf, counter |-> c.counter, err |-> c.err,
                       warned |-> <<>>]
                 ELSE [pf |-> t.pf, counter |-> c.counter, err |-> NoError,
                       warned |-> t.warned]
    ELSE LET m == ExecuteMarketOrder(pf, symbol, action, price, quantity)
         IN IF m.err # NoError
            THEN [pf |-> m.pf, counter |-> counter, err |-> m.err,
                  warned |-> <<>>]
            ELSE LET t == CheckAndExecuteLimitOrders(m.pf, symbol, price)
                 IN [pf |-> t.pf, counter |-> counter, err |-> NoError,
                     warned |-> t.warned]

\* executeTrade with the limit-order resolution run even after the market
\* order threw (the two statements of lines 98-99 not sequenced by the throw)
ExecuteTradeResult_ResolveAnyway(pf, counter, trade) ==
    LET symbol == trade.symbol
        action == trade.action
        price == trade.price
        quantity == trade.quantity
        orderType == trade.orderType
        limitPrice == trade.limitPrice
    IN
    IF orderType = "LIMIT"
    THEN IF Falsy(limitPrice)
         THEN [pf |-> pf, counter |-> counter, err |-> MissingLimitPrice,
               warned |-> <<>>]
         ELSE LET c == CreateLimitOrder(pf, counter, symbol, action,
                                        quantity, limitPrice[1])
              IN [pf |-> c.pf, counter |-> c.counter, err |-> c.err,
                  warned |-> <<>>]
    ELSE LET m == ExecuteMarketOrder(pf, symbol, action, price, quantity)
             t == CheckAndExecuteLimitOrders(m.pf, symbol, price)
         IN [pf |-> t.pf, counter |-> counter, err |-> m.err,
             warned |-> t.warned]

(***************************************************************************)
(* executeTrade, lines 87-102, as a function of the engine state and the   *)
(* webhook (line 88 destructures it; orderType defaults to MARKET in the   *)
(* callers of this operator): the state it leaves, the error it throws     *)
(* and the ids it reported with console.warn.                              *)
(***************************************************************************)
ExecuteTradeResult(pf, counter, trade) ==
    LET symbol == trade.symbol
        action == trade.action
        price == trade.price
        quantity == trade.quantity
        orderType == trade.orderType
        limitPrice == trade.limitPrice
    IN
    IF orderType = "LIMIT"
    THEN IF Falsy(limitPrice)
         THEN [pf |-> pf, counter |-> counter, err |-> MissingLimitPrice,
               warned |-> <<>>]
         ELSE LET c == CreateLimitOrder(pf, counter, symbol, action,
                                        quantity, limitPrice[1])
              IN [pf |-> c.pf, counter |-> c.counter, err |-> c.err,
                  warned |-> <<>>]
    ELSE LET m == ExecuteMarketOrder(pf, symbol, action, price, quantity)
         IN IF m.err # NoError
            THEN [pf |-> m.pf, counter |-> counter, err |-> m.err,
                  warned |-> <<>>]
            ELSE LET t == CheckAndExecuteLimitOrders(m.pf, symbol, price)
                 IN [pf |-> t.pf, counter |-> counter, err |-> NoError,
                     warned |-> t.warned]

\* the search that does not compare ids: the first pending order, if any
OrderIndex_First(pending, orderId) ==
    IF pending = <<>> THEN 0 ELSE 1

\* cancelLimitOrder, line 314: findIndex(order => order.id === orderId)
OrderIndex(pending, orderId) ==
    LET hits == {i \in 1..Len(pending) : pending[i].id = orderId}
    IN IF hits = {} THEN 0 ELSE CHOOSE i \in hits : \A j \in hits : i <= j

(***************************************************************************)
(* The state.  portfolio is this.portfolio, orderIdCounter the field of    *)
(* that name.  last is the request in hand: Idle while no call is being    *)
(* served, otherwise the call of the public method that has just run, with *)
(* its arguments, the error it threw (NoError if it returned), the boolean *)
(* cancelLimitOrder returned and the order ids reported with console.warn. *)
(* The HTTP adapters serve one request at a time: they call the engine,    *)
(* relay the outcome and only then take the next request.  What            *)
(* executeTrade returns is Returned, a copy of the portfolio as the call   *)
(* left it.                                                                *)
(***************************************************************************)
Idle == [op |-> "idle"]

\* constructor, lines 72-80
Init ==
    /\ portfolio = [balance |-> InitialBalance, positions |-> <<>>,
                    trades |-> <<>>, pendingLimitOrders |-> <<>>]
    /\ orderIdCounter = 0
    /\ last = Idle

\* getPortfolio, lines 353-360: a copy of the portfolio
GetPortfolio(pf) == pf

\* lines 95, 100, 159: executeTrade returns this.getPortfolio()
Returned == GetPortfolio(portfolio)

\* executeTrade(trade), lines 87-102
ExecuteTrade(symbol, action, price, quantity, orderType, limitPrice) ==
    LET r == ExecuteTradeResult(portfolio, orderIdCounter,
                                [symbol |-> symbol, action |-> action,
                                 price |-> price, quantity |-> quantity,
                                 orderType |-> orderType,
                                 limitPrice |-> limitPrice])
    IN /\ last = Idle
       /\ portfolio' = r.pf
       /\ orderIdCounter' = r.counter
       /\ last' = [op |-> "executeTrade", symbol |-> symbol,
                   action |-> action, price |-> price,
                   quantity |-> quantity, orderType |-> orderType,
                   limitPrice |-> limitPrice, err |-> r.err,
                   warned |-> r.warned]

\* updateMarketPrice(symbol, price), lines 345-347
UpdateMarketPrice(symbol, price) ==
    LET t == CheckAndExecuteLimitOrders(portfolio, symbol, price)
    IN /\ last = Idle
       /\ portfolio' = t.pf
       /\ last' = [op |-> "updateMarketPrice", symbol |-> symbol,
                   price |-> price, err |-> NoError, warned |-> t.warned]
       /\ UNCHANGED orderIdCounter

\* the cancellation paying back limitPrice * quantity plus commission for a
\* BUY order, as the documentation describes it, although createLimitOrder
\* withheld nothing
CancelLimitOrder_Refunding(orderId) ==
    LET orderIndex == OrderIndex(portfolio.pendingLimitOrders, orderId)
        order == portfolio.pendingLimitOrders[orderIndex]
        tradeValue == TradeValue(order.limitPrice, order.quantity)
    IN /\ last = Idle
       /\ portfolio' =
            IF orderIndex = 0 THEN portfolio
            ELSE [portfolio EXCEPT
                    !.pendingLimitOrders = Splice(@, orderIndex),
                    !.balance = IF order.action = "BUY"
                                THEN @ + tradeValue
                                       + CommissionAmount(tradeValue)
                                ELSE @]
       /\ last' = [op |-> "cancelLimitOrder", orderId |-> orderId,
                   err |-> NoError, ret |-> (orderIndex # 0)]
       /\ UNCHANGED orderIdCounter

\* cancelLimitOrder(orderId), lines 313-321
CancelLimitOrder(orderId) ==
    LET orderIndex == OrderIndex(portfolio.pendingLimitOrders, orderId)
    IN /\ last = Idle
       /\ portfolio' =
            IF orderIndex = 0 THEN portfolio
            ELSE [portfolio EXCEPT !.pendingLimitOrders = Splice(@, orderIndex)]
       /\ last' = [op |-> "cancelLimitOrder", orderId |-> orderId,
                   err |-> NoError, ret |-> (orderIndex # 0)]
       /\ UNCHANGED orderIdCounter

\* the adapter relays the outcome of the call (res.status(...).json(...));
\* the engine state is not touched
Respond ==
    /\ last # Idle
    /\ last' = Idle
    /\ UNCHANGED <<portfolio, orderIdCounter>>

(***************************************************************************)
(* The calls of the public methods, with the order arguments drawn from    *)
(* the given sets.  A MARKET webhook carries no limitPrice (executeTrade   *)
(* does not read it then).                                                 *)
(***************************************************************************)
Within(cap) == Len(portfolio'.trades) + orderIdCounter' <= cap

MarketOrder(syms, qs, cap) ==
    \E symbol \in syms, action \in Actions, price \in Prices,
       quantity \in qs :
      /\ ExecuteTrade(symbol, action, price, quantity, "MARKET", Absent)
      /\ Within(cap)

LimitOrder(syms, qs, lps, cap) ==
    \E symbol \in syms, action \in Actions, price \in Prices,
       quantity \in qs, limitPrice \in lps :
      /\ ExecuteTrade(symbol, action, price, quantity, "LIMIT", limitPrice)
      /\ Within(cap)

PriceTick(syms) ==
    \E symbol \in syms, price \in Prices : UpdateMarketPrice(symbol, price)

Cancel == \E orderId \in 1..(orderIdCounter + 1) : CancelLimitOrder(orderId)

\* orders with a positive quantity and, if LIMIT, a limit price or none
Next ==
    \/ MarketOrder(Symbols, Quantities, MaxOps)
    \/ LimitOrder(Symbols, Quantities, LimitPrices, MaxOps)
    \/ PriceTick(Symbols)
    \/ Cancel
    \/ Respond

Spec == Init /\ [][Next]_vars

\* every order the validator lets through, on one symbol
NextAnyInput ==
    \/ MarketOrder(AnySymbols, AnyQuantities, MaxAnyOps)
    \/ LimitOrder(AnySymbols, AnyQuantities, AnyLimitPrices, MaxAnyOps)
    \/ PriceTick(AnySymbols)
    \/ Cancel
    \/ Respond

SpecAnyInput == Init /\ [][NextAnyInput]_vars

(***************************************************************************)
(* The webhook service in front of the engine and the callers of its       *)
(* queries.                                                                *)
(***************************************************************************)
\* the service is explored while trades + issued order ids stay within
MaxServiceOps == 2

\* orderType?: 'MARKET' | 'LIMIT' of a webhook, an optional field
WebhookOrderTypes == {Absent, Present("MARKET"), Present("LIMIT")}

\* the object literal processTradingViewWebhook hands to executeTrade
\* (webhookService.ts, lines 28-35): symbol, action, price and quantity
\* (and strategy and timestamp) are copied from the webhook; orderType and
\* limitPrice are not among the copied fields
ServiceTrade(webhook) ==
    [symbol |-> webhook.symbol, action |-> webhook.action,
     price |-> webhook.price, quantity |-> webhook.quantity,
     orderType |-> Absent, limitPrice |-> Absent]

\* the destructuring of line 88: orderType = 'MARKET' when undefined
WithDefaults(trade) ==
    [trade EXCEPT !.orderType = IF @ = Absent THEN "MARKET" ELSE @[1]]

\* processTradingViewWebhook(webhook), webhookService.ts lines 24-38
ProcessTradingViewWebhook(webhook) ==
    LET r == ExecuteTradeResult(portfolio, orderIdCounter,
                                WithDefaults(ServiceTrade(webhook)))
    IN /\ last = Idle
       /\ portfolio' = r.pf
       /\ orderIdCounter' = r.counter
       /\ last' = [op |-> "processTradingViewWebhook", webhook |-> webhook,
                   err |-> r.err, warned |-> r.warned]

Webhook(cap) ==
    \E symbol \in AnySymbols, action \in Actions, price \in Prices,
       quantity \in Quantities, orderType \in WebhookOrderTypes,
       limitPrice \in LimitPrices :
      /\ ProcessTradingViewWebhook(
           [symbol |-> symbol, action |-> action, price |-> price,
            quantity |-> quantity, orderType |-> orderType,
            limitPrice |-> limitPrice])
      /\ Within(cap)

\* the status the webhook router answers with once the payload has passed
\* validateWebhook (lines 27-39 of the router): 200 when
\* processTradingViewWebhook returned, and 500 from the catch block for
\* whatever was thrown
ResponseStatus(err) == IF err = NoError THEN 200 ELSE 500

\* webhookRouter.post('/'), for a payload validateWebhook accepts: the call
\* of processTradingViewWebhook and the status of the response
WebhookRouterPost(webhook) ==
    LET r == ExecuteTradeResult(portfolio, orderIdCounter,
                                WithDefaults(ServiceTrade(webhook)))
    IN /\ last = Idle
       /\ portfolio' = r.pf
       /\ orderIdCounter' = r.counter
       /\ last' = [op |-> "webhookRouter.post", webhook |-> webhook,
                   err |-> r.err, warned |-> r.warned,
                   status |-> ResponseStatus(r.err)]

Post(cap) ==
    \E symbol \in AnySymbols, action \in Actions, price \in Prices,
       quantity \in Quantities, orderType \in WebhookOrderTypes,
       limitPrice \in LimitPrices :
      /\ WebhookRouterPost(
           [symbol |-> symbol, action |-> action, price |-> price,
            quantity |-> quantity, orderType |-> orderType,
            limitPrice |-> limitPrice])
      /\ Within(cap)

\* what a caller can assign to in the result of getPortfolio: the balance
\* field, the positions array itself, or the quantity field of a position,
\* of a pending order or of a trade the arrays hold
WriteTargets == {"balance", "positions", "position", "order", "trade"}

\* the number of elements of the returned array a target lies in (1 for
\* the targets that are not array elements)
TargetCount(target) ==
    CASE target = "position" -> Len(portfolio.positions)
      [] target = "order" -> Len(portfolio.pendingLimitOrders)
      [] target = "trade" -> Len(portfolio.trades)
      [] OTHER -> 1

(***************************************************************************)
(* A caller assigns v to a target in what getPortfolio just returned.      *)
(* getPortfolio (lines 353-360) builds a new object ({...this.portfolio})  *)
(* with new arrays ([...this.portfolio.positions] and so on): balance is   *)
(* copied by value and the arrays are new, so assigning to them does not   *)
(* reach the engine.  The spread copies the references the arrays hold:    *)
(* the elements of the returned arrays are the engine's own position,      *)
(* order and trade objects, and a field assigned through them is assigned  *)
(* in the engine.  getPendingLimitOrders (line 328) and                    *)
(* getPendingLimitOrdersBySymbol (line 337, filter) return the same order  *)
(* objects in the same way.                                                *)
(***************************************************************************)
CallerWrites(target, i, v) ==
    /\ last = Idle
    /\ i \in 1..TargetCount(target)
    /\ portfolio' =
         CASE target = "position" ->
                [portfolio EXCEPT !.positions[i].quantity = v]
           [] target = "order" ->
                [portfolio EXCEPT !.pendingLimitOrders[i].quantity = v]
           [] target = "trade" ->
                [portfolio EXCEPT !.trades[i].quantity = v]
           [] OTHER -> portfolio
    /\ last' = [op |-> "callerWrite", target |-> target, index |-> i,
                value |-> v, err |-> NoError]
    /\ UNCHANGED orderIdCounter

CallerWrite ==
    \E target \in WriteTargets, i \in 1..MaxServiceOps, v \in Quantities :
      CallerWrites(target, i, v)

\* the engine behind the webhook service, with callers that write to the
\* results of its queries, on one symbol
NextService ==
    \/ Webhook(MaxServiceOps)
    \/ Post(MaxServiceOps)
    \/ MarketOrder(AnySymbols, Quantities, MaxServiceOps)
    \/ LimitOrder(AnySymbols, Quantities, LimitPrices, MaxServiceOps)
    \/ PriceTick(AnySymbols)
    \/ Cancel
    \/ CallerWrite
    \/ Respond

SpecService == Init /\ [][NextService]_vars

(***************************************************************************)
(* The limit order service: the manual price check of the REST interface   *)
(* (POST /api/limit-orders/check-price).                                   *)
(***************************************************************************)
\* the price check is explored while trades + issued order ids stay within
MaxCheckOps == 2

\* the query counting every pending order, whatever its symbol
GetPendingLimitOrdersBySymbol_All(pf, symbol) == pf.pendingLimitOrders

\* getPendingLimitOrdersBySymbol(symbol), lines 336-338:
\* pendingLimitOrders.filter(order => order.symbol === symbol)
GetPendingLimitOrdersBySymbol(pf, symbol) ==
    SelectSeq(pf.pendingLimitOrders, LAMBDA order : order.symbol = symbol)

\* LimitOrderService.updateMarketPrice(symbol, currentPrice): the number of
\* pending orders of the symbol before and after the engine's resolution
\* pass, returned as {executed: before - after, remaining: after}
ServiceUpdateMarketPrice(symbol, currentPrice) ==
    LET limitOrdersBefore ==
            Len(GetPendingLimitOrdersBySymbol(portfolio, symbol))
        t == CheckAndExecuteLimitOrders(portfolio, symbol, currentPrice)
        limitOrdersAfter == Len(GetPendingLimitOrdersBySymbol(t.pf, symbol))
    IN /\ last = Idle
       /\ portfolio' = t.pf
       /\ last' = [op |-> "checkPrice", symbol |-> symbol,
                   price |-> currentPrice, err |-> NoError,
                   warned |-> t.warned,
                   ret |-> [executed |-> limitOrdersBefore - limitOrdersAfter,
                            remaining |-> limitOrdersAfter]]
       /\ UNCHANGED orderIdCounter

CheckPrice ==
    \E symbol \in Symbols, price \in Prices :
      ServiceUpdateMarketPrice(symbol, price)

\* the engine with its orders and the manual price check, on two symbols
NextCheckPrice ==
    \/ MarketOrder(Symbols, Quantities, MaxCheckOps)
    \/ LimitOrder(Symbols, Quantities, LimitPrices, MaxCheckOps)
    \/ CheckPrice
    \/ Respond

SpecCheckPrice == Init /\ [][NextCheckPrice]_vars

(***************************************************************************)
(* The engine under concurrent requests.  The requests the server has      *)
(* received wait in a queue; the event loop hands one to its handler,      *)
(* which runs the call of the engine statement by statement.  Here last    *)
(* holds the loop: the queue, the calls in progress with the statement     *)
(* each has reached, and the requests served so far with their outcome.    *)
(***************************************************************************)
\* the number of requests the server receives
MaxRequests == 2

\* the calls of the mutating methods a request can lead to
Requests ==
    [op : {"executeTrade"}, symbol : AnySymbols, action : Actions,
     price : Prices, quantity : Quantities,
     orderType : {"MARKET"}, limitPrice : {Absent}]
    \cup [op : {"executeTrade"}, symbol : AnySymbols, action : Actions,
          price : Prices, quantity : Quantities,
          orderType : {"LIMIT"}, limitPrice : LimitPrices]
    \cup [op : {"updateMarketPrice"}, symbol : AnySymbols, price : Prices]
    \cup [op : {"cancelLimitOrder"}, orderId : 1..MaxRequests]

InitLoop ==
    /\ portfolio = [balance |-> InitialBalance, positions |-> <<>>,
                    trades |-> <<>>, pendingLimitOrders |-> <<>>]
    /\ orderIdCounter = 0
    /\ last = [op |-> "loop", received |-> 0, queue |-> <<>>,
               running |-> <<>>, served |-> <<>>]

\* the call of a handler at its first statement
NewCall(request) ==
    [request |-> request, pc |-> request.op, err |-> NoError,
     index |-> 0, order |-> Absent, todo |-> <<>>]

\* the call has run its last statement or has thrown e
Finished(pf, counter, call, e) ==
    [pf |-> pf, counter |-> counter,
     call |-> [call EXCEPT !.pc = "return", !.err = e]]

(***************************************************************************)
(* One statement of a call in progress: the code from the statement the    *)
(* call has reached up to and including its next assignment to the state   *)
(* of the engine (or its throw, or its return).                            *)
(*   executeTrade, MARKET BUY  (lines 183-199, 226-235, 99):               *)
(*     check, positions.push | balance -= | trades.push | resolution       *)
(*   executeTrade, MARKET SELL (lines 200-223, 226-235, 99):               *)
(*     findIndex, balance += | splice or quantity -= | trades.push | ...   *)
(*   executeTrade, LIMIT (lines 92-95, 122-159):                           *)
(*     checks, generateOrderId | pendingLimitOrders.push                   *)
(*   updateMarketPrice (lines 345-347, 244-261): collects the orders       *)
(*   resolution (lines 264-275): one pass of the loop body per statement   *)
(*   cancelLimitOrder (lines 313-321): findIndex, splice                   *)
(***************************************************************************)
Statement(pf, counter, call) ==
    LET request == call.request
        tradeValue == TradeValue(request.price, request.quantity)
        commissionAmount == CommissionAmount(tradeValue)
        Goto(newPf, newCounter, newCall) ==
            [pf |-> newPf, counter |-> newCounter, call |-> newCall]
    IN
    CASE call.pc = "executeTrade" /\ request.orderType = "LIMIT" ->
           IF Falsy(request.limitPrice)
           THEN Finished(pf, counter, call, MissingLimitPrice)
           ELSE LET c == CreateLimitOrder(pf, counter, request.symbol,
                                          request.action, request.quantity,
                                          request.limitPrice[1])
                    n == Len(c.pf.pendingLimitOrders)
                IN IF c.err # NoError
                   THEN Finished(pf, counter, call, c.err)
                   ELSE Goto(pf, c.counter,
                             [call EXCEPT
                                !.pc = "pendingLimitOrders.push",
                                !.order = Present(c.pf.pendingLimitOrders[n])])
      [] call.pc = "pendingLimitOrders.push" ->
           Finished([pf EXCEPT !.pendingLimitOrders = Append(@, call.order[1])],
                    counter, call, NoError)
      [] call.pc = "executeTrade" /\ request.orderType = "MARKET"
                                  /\ request.action = "BUY" ->
           IF InsufficientFunds(pf.balance, tradeValue + commissionAmount)
           THEN Finished(pf, counter, call, InsufficientBalance)
           ELSE Goto([pf EXCEPT !.positions =
                         Append(@, [symbol |-> request.symbol,
                                    entryPrice |-> request.price,
                                    quantity |-> request.quantity])],
                     counter, [call EXCEPT !.pc = "balance -="])
      [] call.pc = "balance -=" ->
           Goto([pf EXCEPT !.balance = @ - (tradeValue + commissionAmount)],
                counter, [call EXCEPT !.pc = "trades.push"])
      [] call.pc = "executeTrade" /\ request.orderType = "MARKET"
                                  /\ request.action = "SELL" ->
           LET positionIndex == FindIndex(pf.positions, request.symbol,
                                          request.quantity)
           IN IF positionIndex = 0
              THEN Finished(pf, counter, call, NoMatchingPosition)
              ELSE Goto([pf EXCEPT !.balance =
                            @ + request.price * request.quantity * 1000
                              - commissionAmount],
                        counter,
                        [call EXCEPT !.pc = "positions", !.index = positionIndex])
      [] call.pc = "positions" ->
           Goto([pf EXCEPT !.positions =
                    ReducePosition(@, call.index, request.quantity)],
                counter, [call EXCEPT !.pc = "trades.push"])
      [] call.pc = "trades.push" ->
           LET logged == [pf EXCEPT !.trades =
                             Append(@, [symbol |-> request.symbol,
                                        action |-> request.action,
                                        price |-> request.price,
                                        quantity |-> request.quantity,
                                        commission |-> commissionAmount,
                                        orderType |-> "MARKET"])]
           IN Goto(logged, counter,
                   [call EXCEPT !.pc = "resolve",
                                !.todo = OrdersToExecute(logged, request.symbol,
                                                         request.price)])
      [] call.pc = "updateMarketPrice" ->
           Goto(pf, counter,
                [call EXCEPT !.pc = "resolve",
                             !.todo = OrdersToExecute(pf, request.symbol,
                                                      request.price)])
      [] call.pc = "resolve" ->
           IF call.todo = <<>>
           THEN Finished(pf, counter, call, NoError)
           ELSE LET order == Head(call.todo)
                    r == ExecuteLimitOrder(pf, order, request.price)
                    rest == [call EXCEPT !.todo = Tail(@)]
                IN IF r.err = NoError
                   THEN Goto([r.pf EXCEPT !.pendingLimitOrders =
                                 RemoveOrder(@, order.id)],
                             counter, rest)
                   ELSE Goto(r.pf, counter, rest)
      [] call.pc = "cancelLimitOrder" ->
           LET orderIndex == OrderIndex(pf.pendingLimitOrders, request.orderId)
           IN IF orderIndex = 0
              THEN Finished(pf, counter, call, NoError)
              ELSE Finished([pf EXCEPT !.pendingLimitOrders =
                                Splice(@, orderIndex)],
                            counter, call, NoError)

\* a handler that awaited inside the call of the engine: the loop would take
\* the next request while the call is suspended
RunToCompletion_AwaitInside(running) == TRUE

\* the event loop takes the next request only when no call is in progress:
\* executeTrade, updateMarketPrice and cancelLimitOrder contain no await and
\* the only await of the handlers (await processTradingViewWebhook(webhook)
\* in the router) comes after the call of the engine has returned, its
\* continuation running before the loop takes another request
RunToCompletion(running) == running = <<>>

\* the server receives a request
Receive(request) ==
    /\ last.received < MaxRequests
    /\ last' = [last EXCEPT !.received = @ + 1,
                            !.queue = Append(@, request)]
    /\ UNCHANGED <<portfolio, orderIdCounter>>

\* the loop hands the oldest waiting request to its handler
Dispatch ==
    /\ last.queue # <<>>
    /\ RunToCompletion(last.running)
    /\ last' = [last EXCEPT !.queue = Tail(@),
                            !.running = Append(@, NewCall(Head(last.queue)))]
    /\ UNCHANGED <<portfolio, orderIdCounter>>

\* a call in progress runs its next statement
Step(i) ==
    /\ last.running[i].pc # "return"
    /\ LET s == Statement(portfolio, orderIdCounter, last.running[i])
       IN /\ portfolio' = s.pf
          /\ orderIdCounter' = s.counter
          /\ last' = [last EXCEPT !.running[i] = s.call]

\* the handler answers the request
Return(i) ==
    /\ last.running[i].pc = "return"
    /\ last' = [last EXCEPT
                  !.running = Splice(@, i),
                  !.served = Append(@, [request |-> last.running[i].request,
                                        err |-> last.running[i].err])]
    /\ UNCHANGED <<portfolio, orderIdCounter>>

Arrive == \E request \in Requests : Receive(request)

Run == \E i \in 1..Len(last.running) : Step(i)

Answer == \E i \in 1..Len(last.running) : Return(i)

NextLoop ==
    \/ Arrive
    \/ Dispatch
    \/ Run
    \/ Answer

SpecLoop == InitLoop /\ [][NextLoop]_vars

(***************************************************************************)
(* Vocabulary of the properties.  Amounts are written out from the prose   *)
(* of the claims, in thousandths: p*q costs p*q*1000 and the commission    *)
(* p*q*rate/100 is p*q*Commission.                                         *)
(***************************************************************************)
balance == portfolio.balance
positions == portfolio.positions
trades == portfolio.trades
pendingLimitOrders == portfolio.pendingLimitOrders

Value(p, q) == p * q * 1000
Fee(p, q) == p * q * Commission

\* the indices of the pending orders of symbol s whose trigger condition
\* holds at price p
Triggered(s, p) ==
    {i \in 1..Len(pendingLimitOrders) :
        /\ pendingLimitOrders[i].symbol = s
        /\ \/ pendingLimitOrders[i].action = "BUY"
              /\ p <= pendingLimitOrders[i].limitPrice
           \/ pendingLimitOrders[i].action = "SELL"
              /\ p >= pendingLimitOrders[i].limitPrice}

\* a sequence without its m-th element
Without(seq, m) == SubSeq(seq, 1, m - 1) \o SubSeq(seq, m + 1, Len(seq))

\* the step is a call of executeTrade with this order type
Submitted(orderType) ==
    last'.op = "executeTrade" /\ last'.orderType = orderType

\* C1: the balance is never negative.
C1_BalanceNonNegative == balance >= 0

\* C2: every position has a quantity greater than zero.
C2_PositionsPositive ==
    \A i \in 1..Len(positions) : positions[i].quantity > 0

\* C3: a call of executeTrade that throws leaves balance, positions, trades
\* and pending orders as they were (so a failed MARKET order resolved no
\* pending order) and issues no order id.
C3_FailedTradeChangesNothing ==
    [][(last'.op = "executeTrade" /\ last'.err # NoError)
        => (portfolio' = portfolio /\ orderIdCounter' = orderIdCounter)]_vars

\* a MARKET order was rejected at a price that crosses a resting BUY which
\* the balance could pay for
C3_Witness ==
    /\ last.op = "executeTrade"
    /\ last.orderType = "MARKET"
    /\ last.err # NoError
    /\ \E i \in Triggered(last.symbol, last.price) :
          /\ pendingLimitOrders[i].action = "BUY"
          /\ balance >= Value(last.price, pendingLimitOrders[i].quantity)
                        + Fee(last.price, pendingLimitOrders[i].quantity)

InvalidQuantity == "InvalidQuantity"

\* C4: an order submission with quantity <= 0 is rejected with the
\* InvalidQuantity error and changes nothing.
C4_NonPositiveQuantityRejected ==
    [][(last'.op = "executeTrade" /\ last'.quantity <= 0)
        => (last'.err = InvalidQuantity /\ portfolio' = portfolio)]_vars

\* C5: a LIMIT order without a limitPrice is rejected with the
\* missing-limit-price error and changes nothing; a LIMIT order that carries
\* a number as limitPrice is never rejected with that error.
C5_MissingLimitPriceOnlyWhenAbsent ==
    [][Submitted("LIMIT")
        => IF last'.limitPrice = Absent
           THEN last'.err = MissingLimitPrice /\ portfolio' = portfolio
           ELSE last'.err # MissingLimitPrice]_vars

\* C6: a MARKET BUY of q at p succeeds exactly when balance >= p*q +
\* p*q*rate/100 and otherwise throws the insufficient-balance error; when it
\* succeeds and triggers no pending order, the balance falls by exactly that
\* amount, the position {symbol, entryPrice = p, quantity = q} is appended at
\* the end of positions and one MARKET trade is appended.
C6_MarketBuy ==
    [][(Submitted("MARKET") /\ last'.action = "BUY")
        => LET s == last'.symbol
               p == last'.price
               q == last'.quantity
           IN IF balance >= Value(p, q) + Fee(p, q)
              THEN /\ last'.err = NoError
                   /\ Triggered(s, p) = {}
                        => /\ balance' = balance - (Value(p, q) + Fee(p, q))
                           /\ positions' =
                                Append(positions,
                                       [symbol |-> s, entryPrice |-> p,
                                        quantity |-> q])
                           /\ trades' =
                                Append(trades,
                                       [symbol |-> s, action |-> "BUY",
                                        price |-> p, quantity |-> q,
                                        commission |-> Fee(p, q),
                                        orderType |-> "MARKET"])
                           /\ pendingLimitOrders' = pendingLimitOrders
              ELSE last'.err = InsufficientBalance /\ portfolio' = portfolio
      ]_vars

\* a MARKET BUY that cost exactly the whole balance went through
C6_Witness ==
    /\ last.op = "executeTrade"
    /\ last.orderType = "MARKET"
    /\ last.action = "BUY"
    /\ last.err = NoError
    /\ balance = 0
    /\ pendingLimitOrders = <<>>
    /\ Len(positions) = Len(trades)
    /\ positions[Len(positions)] =
         [symbol |-> last.symbol, entryPrice |-> last.price,
          quantity |-> last.quantity]

\* the positions of symbol s that can cover a sale of q on their own
Covering(s, q) ==
    {i \in 1..Len(positions) :
        positions[i].symbol = s /\ positions[i].quantity >= q}

\* the earliest position in a non-empty set of indices
First(indices) == CHOOSE i \in indices : \A j \in indices : i <= j

\* positions after q has been sold out of the m-th one
SoldFrom(m, q) ==
    IF positions[m].quantity = q
    THEN Without(positions, m)
    ELSE [positions EXCEPT ![m].quantity = positions[m].quantity - q]

\* the step is a price tick that triggers exactly one pending order, a SELL
OneSellTriggered ==
    /\ last'.op = "updateMarketPrice"
    /\ Cardinality(Triggered(last'.symbol, last'.price)) = 1
    /\ \A i \in Triggered(last'.symbol, last'.price) :
          pendingLimitOrders[i].action = "SELL"

\* the step is a MARKET SELL at a price that triggers no pending order
PlainMarketSell ==
    /\ Submitted("MARKET")
    /\ last'.action = "SELL"
    /\ Triggered(last'.symbol, last'.price) = {}

\* C7: a SELL of q in symbol S, by a MARKET order or by a triggered limit
\* order, is taken out of the first position (insertion order) of S whose
\* quantity is >= q; if no single position qualifies it fails with the
\* no-matching-position error and nothing changes, whatever the positions
\* of S add up to.
C7_SellMatchesFirstCoveringPosition ==
    [][/\ (Submitted("MARKET") /\ last'.action = "SELL")
            => LET cover == Covering(last'.symbol, last'.quantity)
               IN IF cover = {}
                  THEN /\ last'.err = NoMatchingPosition
                       /\ portfolio' = portfolio
                  ELSE /\ last'.err = NoError
                       /\ Triggered(last'.symbol, last'.price) = {}
                            => positions' =
                                 SoldFrom(First(cover), last'.quantity)
       /\ OneSellTriggered
            => \A i \in Triggered(last'.symbol, last'.price) :
                 LET o == pendingLimitOrders[i]
                     cover == Covering(o.symbol, o.quantity)
                 IN IF cover = {}
                    THEN /\ last'.warned = <<o.id>>
                         /\ portfolio' = portfolio
                    ELSE /\ last'.warned = <<>>
                         /\ positions' = SoldFrom(First(cover), o.quantity)
      ]_vars

\* a triggered limit SELL of 2 failed and changed nothing although the
\* positions of its symbol, none of which holds 2, add up to 2 or more
C7_Witness ==
    /\ last.op = "updateMarketPrice"
    /\ Len(last.warned) = 1
    /\ \E i \in 1..Len(pendingLimitOrders) :
          LET o == pendingLimitOrders[i]
          IN /\ o.id = last.warned[1]
             /\ o.action = "SELL"
             /\ o.symbol = last.symbol
             /\ last.price >= o.limitPrice
             /\ Covering(o.symbol, o.quantity) = {}
             /\ SumQuantity(PositionsOf(portfolio, o.symbol)) >= o.quantity
    /\ trades = [i \in 1..Len(trades) |->
                   [trades[i] EXCEPT !.action = "BUY"]]

\* C8: a successful SELL of q at p credits the balance with p*q -
\* p*q*rate/100; the matched position is removed if it held exactly q and
\* otherwise stays at its index with its quantity reduced by q; every other
\* position is unchanged and keeps its place in the order.
C8_SellEffect ==
    [][\A m \in 1..Len(positions) :
         LET sold(s, p, q) ==
               /\ balance' = balance + Value(p, q) - Fee(p, q)
               /\ IF positions[m].quantity = q
                  THEN /\ Len(positions') = Len(positions) - 1
                       /\ \A i \in 1..Len(positions') :
                            positions'[i] =
                              IF i < m THEN positions[i] ELSE positions[i + 1]
                  ELSE /\ Len(positions') = Len(positions)
                       /\ \A i \in 1..Len(positions) :
                            positions'[i] =
                              IF i = m
                              THEN [symbol |-> s,
                                    entryPrice |-> positions[m].entryPrice,
                                    quantity |-> positions[m].quantity - q]
                              ELSE positions[i]
         IN /\ (/\ PlainMarketSell
                /\ last'.err = NoError
                /\ Covering(last'.symbol, last'.quantity) # {}
                /\ m = First(Covering(last'.symbol, last'.quantity)))
               => sold(last'.symbol, last'.price, last'.quantity)
            /\ (OneSellTriggered /\ last'.warned = <<>>)
               => \A i \in Triggered(last'.symbol, last'.price) :
                    LET o == pendingLimitOrders[i]
                    IN (/\ Covering(o.symbol, o.quantity) # {}
                        /\ m = First(Covering(o.symbol, o.quantity)))
                       => sold(o.symbol, last'.price, o.quantity)
      ]_vars

\* a MARKET SELL took part of the first of two positions: the first stays
\* in front with what is left, the second is as it was bought
C8_Witness ==
    /\ last.op = "executeTrade"
    /\ last.orderType = "MARKET"
    /\ last.action = "SELL"
    /\ last.err = NoError
    /\ Len(trades) = 3
    /\ trades[1].action = "BUY" /\ trades[2].action = "BUY"
    /\ trades[3].action = "SELL"
    /\ trades[1].symbol = last.symbol
    /\ trades[1].quantity > last.quantity
    /\ Len(positions) = 2
    /\ positions[1].symbol = last.symbol
    /\ positions[1].quantity = trades[1].quantity - last.quantity
    /\ positions[2].quantity = trades[2].quantity
    /\ positions[2].symbol = trades[2].symbol
    /\ balance = InitialBalance
                 - (Value(trades[1].price, trades[1].quantity)
                    + Fee(trades[1].price, trades[1].quantity))
                 - (Value(trades[2].price, trades[2].quantity)
                    + Fee(trades[2].price, trades[2].quantity))
                 + Value(last.price, last.quantity)
                 - Fee(last.price, last.quantity)

\* C9: a LIMIT BUY of q at limit price L is accepted only if balance >=
\* L*q*(1+rate/100); when it is accepted the balance is reduced at once by
\* that reserved amount and the order is appended to the pending orders.
C9_LimitBuyReservesFunds ==
    [][(Submitted("LIMIT") /\ last'.action = "BUY" /\ last'.err = NoError)
        => LET q == last'.quantity
               L == last'.limitPrice[1]
           IN /\ balance >= Value(L, q) + Fee(L, q)
              /\ balance' = balance - (Value(L, q) + Fee(L, q))
              /\ Len(pendingLimitOrders') = Len(pendingLimitOrders) + 1
      ]_vars

RestsAtEnd ==
    /\ Len(pendingLimitOrders') = Len(pendingLimitOrders) + 1
    /\ SubSeq(pendingLimitOrders', 1, Len(pendingLimitOrders))
         = pendingLimitOrders
    /\ LET o == pendingLimitOrders'[Len(pendingLimitOrders')]
       IN /\ o.symbol = last'.symbol
          /\ o.action = last'.action
          /\ o.quantity = last'.quantity
          /\ o.limitPrice = last'.limitPrice[1]

\* C11: an accepted LIMIT order (BUY or SELL) appends exactly one order at
\* the end of the pending orders and leaves positions and trades unchanged;
\* nothing executes at creation, even if the market price of the call
\* already satisfies the trigger condition of the order.
C11_LimitOrderOnlyRests ==
    [][(Submitted("LIMIT") /\ last'.err = NoError)
        => /\ RestsAtEnd
           /\ positions' = positions
           /\ trades' = trades]_vars

\* a LIMIT SELL was accepted at a market price at or above its limit price
\* while a position could cover it: it rests, and nothing was sold
C11_Witness ==
    /\ last.op = "executeTrade"
    /\ last.orderType = "LIMIT"
    /\ last.action = "SELL"
    /\ last.err = NoError
    /\ last.price >= last.limitPrice[1]
    /\ Covering(last.symbol, last.quantity) # {}
    /\ Len(pendingLimitOrders) = 1
    /\ pendingLimitOrders[1].action = "SELL"
    /\ pendingLimitOrders[1].symbol = last.symbol
    /\ Len(trades) = 1
    /\ trades[1].action = "BUY"

\* what a LIMIT BUY of q at limit price L has to be covered by:
\* L*q + L*q*rate/100
Reserve(L, q) == Value(L, q) + Fee(L, q)

\* C12: pending LIMIT BUY orders cannot over-commit cash: when one LIMIT BUY
\* reserving R has been accepted at balance B and nothing else has
\* happened, a further LIMIT BUY whose amount exceeds B - R is rejected with
\* the insufficient-balance error.
C12_LimitBuysCannotOverCommit ==
    [][(/\ Submitted("LIMIT")
        /\ last'.action = "BUY"
        /\ last'.limitPrice # Absent
        /\ trades = <<>>
        /\ orderIdCounter = 1
        /\ Len(pendingLimitOrders) = 1
        /\ pendingLimitOrders[1].action = "BUY"
        /\ Reserve(last'.limitPrice[1], last'.quantity)
             > InitialBalance - Reserve(pendingLimitOrders[1].limitPrice,
                                        pendingLimitOrders[1].quantity))
        => last'.err = InsufficientBalanceLimit]_vars

RECURSIVE SumOver(_, _)
\* the sum of the quantities of the elements of seq at the given indices
SumOver(seq, indices) ==
    IF indices = {} THEN 0
    ELSE LET i == CHOOSE j \in indices : TRUE
         IN seq[i].quantity + SumOver(seq, indices \ {i})

\* the quantity of symbol s held, over all its positions
Held(s) ==
    SumOver(positions, {i \in 1..Len(positions) : positions[i].symbol = s})

\* the quantity of symbol s committed to pending SELL limit orders
RestingSells(s) ==
    SumOver(pendingLimitOrders,
            {i \in 1..Len(pendingLimitOrders) :
                /\ pendingLimitOrders[i].symbol = s
                /\ pendingLimitOrders[i].action = "SELL"})

PendingIds == {pendingLimitOrders[i].id : i \in 1..Len(pendingLimitOrders)}

\* C14: order ids are unique for the lifetime of the engine: in every state
\* no id occurs twice in the pending orders, and an id that was issued once
\* (its order may have executed or been cancelled since) is never issued
\* again.  Every id issued so far is at most orderIdCounter, the counter
\* never falls, and every id a step issues is above the counter of before.
C14_OrderIdsUnique ==
    /\ [](\A i, j \in 1..Len(pendingLimitOrders) :
             pendingLimitOrders[i].id = pendingLimitOrders[j].id => i = j)
    /\ [](\A id \in PendingIds : id <= orderIdCounter)
    /\ [][/\ orderIdCounter' >= orderIdCounter
          /\ \A id \in PendingIds' \ PendingIds : id > orderIdCounter]_vars

\* a LIMIT order was accepted after the only earlier one had been
\* cancelled: it carries the second id, not the first again
C14_Witness ==
    /\ last.op = "executeTrade"
    /\ last.orderType = "LIMIT"
    /\ last.err = NoError
    /\ trades = <<>>
    /\ orderIdCounter = 2
    /\ PendingIds = {2}

\* the step resolves the pending orders of last'.symbol at last'.price: a
\* call of updateMarketPrice, or a MARKET order that went through
Tick ==
    \/ last'.op = "updateMarketPrice"
    \/ Submitted("MARKET") /\ last'.err = NoError

\* order o is not to fire at a tick (s, p)
Untouched(o, s, p) ==
    \/ o.symbol # s
    \/ o.action = "BUY" /\ p > o.limitPrice
    \/ o.action = "SELL" /\ p < o.limitPrice

\* the positions in the trade log of the trades the step appended for limit
\* orders it executed
Fills ==
    {k \in (Len(trades) + 1)..Len(trades') : trades'[k].orderType = "LIMIT"}

\* C15: a price tick (symbol S, price p) only executes pending orders of S
\* whose trigger condition holds (BUY with p <= limitPrice, SELL with p >=
\* limitPrice).  A pending BUY with p > limitPrice, a pending SELL with p <
\* limitPrice and every pending order of another symbol remain pending,
\* unchanged and in their order.
C15_TickExecutesOnlyTriggered ==
    [][Tick
        => LET s == last'.symbol
               p == last'.price
           IN /\ SelectSeq(pendingLimitOrders', LAMBDA o : Untouched(o, s, p))
                   = SelectSeq(pendingLimitOrders,
                               LAMBDA o : Untouched(o, s, p))
              /\ PendingIds' \subseteq PendingIds
              /\ \A k \in Fills :
                   /\ trades'[k].symbol = s
                   /\ \E i \in Triggered(s, p) :
                        /\ pendingLimitOrders[i].action = trades'[k].action
                        /\ pendingLimitOrders[i].quantity
                             = trades'[k].quantity
                        /\ pendingLimitOrders[i].id \notin PendingIds'
      ]_vars

\* a tick executed one pending order and left two others resting: a BUY of
\* the same symbol whose limit price is below the tick price, and an order
\* of another symbol whose own trigger condition the tick price satisfies
C15_Witness ==
    /\ last.op = "updateMarketPrice"
    /\ Len(trades) = 1
    /\ trades[1].orderType = "LIMIT"
    /\ trades[1].symbol = last.symbol
    /\ Len(pendingLimitOrders) = 2
    /\ \E i, j \in 1..2 :
          /\ pendingLimitOrders[i].symbol = last.symbol
          /\ pendingLimitOrders[i].action = "BUY"
          /\ last.price > pendingLimitOrders[i].limitPrice
          /\ pendingLimitOrders[j].symbol # last.symbol
          /\ pendingLimitOrders[j].action = "BUY"
          /\ last.price <= pendingLimitOrders[j].limitPrice

\* the order ids the step reported as failed (console.warn, line 272)
Failed == {last'.warned[k] : k \in 1..Len(last'.warned)}

\* the pending orders a tick (s, p) triggers and does not report as failed,
\* in the order they have in the pending orders before the tick
Fired(s, p) ==
    SelectSeq(pendingLimitOrders,
              LAMBDA o : ~Untouched(o, s, p) /\ o.id \notin Failed)

CanExecute(o, p) ==
    IF o.action = "BUY"
    THEN balance >= Reserve(p, o.quantity)
    ELSE Covering(o.symbol, o.quantity) # {}

\* C17: during a price tick the execution failure of one triggered order
\* never propagates to the caller and never prevents later triggered orders
\* of the same pass from being attempted and, if they can, executed: the
\* call returns normally, and a triggered order that only failed orders
\* precede is executed exactly when it can be, and reported exactly when it
\* cannot.
C17_FailureDoesNotStopThePass ==
    [][/\ (last'.op \in {"updateMarketPrice", "executeTrade"}
           /\ Failed # {})
            => last'.err = NoError
       /\ last'.op = "updateMarketPrice"
            => LET s == last'.symbol
                   p == last'.price
               IN \A i \in Triggered(s, p) :
                    (\A j \in Triggered(s, p) :
                        j < i => pendingLimitOrders[j].id \in Failed)
                    => LET o == pendingLimitOrders[i]
                       IN /\ o.id \notin PendingIds' <=> CanExecute(o, p)
                          /\ o.id \in Failed <=> ~CanExecute(o, p)
      ]_vars

\* in one tick the oldest triggered order failed and a newer one was
\* executed after it
C17_Witness ==
    /\ last.op = "updateMarketPrice"
    /\ last.err = NoError
    /\ last.warned = <<1>>
    /\ orderIdCounter = 2
    /\ PendingIds = {1}
    /\ trades[Len(trades)].orderType = "LIMIT"
    /\ trades[Len(trades)].symbol = last.symbol

\* C18: a triggered limit order whose execution fails during a price tick
\* (for example a limit SELL with no single position large enough) is
\* dropped from the pending orders by that tick; it is not left resting.
C18_FailedOrderIsDropped ==
    [][last'.op = "updateMarketPrice"
        => \A id \in Failed : id \notin PendingIds']_vars

\* C19: once a LIMIT BUY has been accepted, any later price tick for its
\* symbol with price <= limitPrice executes it (position appended, LIMIT
\* trade appended, order removed) without a further balance check, whatever
\* market orders or other fills have changed the balance in between; it
\* never fails for lack of balance.
C19_TriggeredLimitBuyAlwaysExecutes ==
    [][last'.op = "updateMarketPrice"
        => \A i \in Triggered(last'.symbol, last'.price) :
             pendingLimitOrders[i].action = "BUY"
             => /\ pendingLimitOrders[i].id \notin Failed
                /\ pendingLimitOrders[i].id \notin PendingIds'
                /\ \E k \in Fills :
                     /\ trades'[k].action = "BUY"
                     /\ trades'[k].quantity = pendingLimitOrders[i].quantity
                /\ \E n \in 1..Len(positions') :
                     /\ positions'[n].symbol = last'.symbol
                     /\ positions'[n].entryPrice = last'.price
                     /\ positions'[n].quantity
                          = pendingLimitOrders[i].quantity]_vars

\* the step is a call of updateMarketPrice that triggers exactly one
\* pending order, a BUY, and executes it
OneBuyFilled ==
    /\ last'.op = "updateMarketPrice"
    /\ last'.warned = <<>>
    /\ Cardinality(Triggered(last'.symbol, last'.price)) = 1
    /\ \A i \in Triggered(last'.symbol, last'.price) :
          pendingLimitOrders[i].action = "BUY"

\* C20: a triggered limit order executes at the current price of the tick,
\* not at its limit price: a filled LIMIT BUY appends a position with
\* entryPrice = currentPrice and the quantity of the order, and the trade
\* recorded for any limit fill (BUY or SELL) has price = currentPrice and
\* orderType LIMIT.
C20_LimitFillAtCurrentPrice ==
    [][/\ Tick
            => /\ \A k \in Fills : trades'[k].price = last'.price
               /\ \A k \in (Len(trades) + 1)..Len(trades') :
                    k \in Fills
                    \/ (last'.op = "executeTrade" /\ k = Len(trades) + 1)
       /\ OneBuyFilled
            => \A i \in Triggered(last'.symbol, last'.price) :
                 LET o == pendingLimitOrders[i]
                     p == last'.price
                 IN /\ positions' =
                         Append(positions,
                                [symbol |-> o.symbol, entryPrice |-> p,
                                 quantity |-> o.quantity])
                    /\ trades' =
                         Append(trades,
                                [symbol |-> o.symbol, action |-> "BUY",
                                 price |-> p, quantity |-> o.quantity,
                                 commission |-> Fee(p, o.quantity),
                                 orderType |-> "LIMIT"])
      ]_vars

\* a tick at price 1 filled the only order ever placed, a LIMIT BUY: the
\* position and the trade carry the price of the tick and the balance paid
\* that price
C20_Witness ==
    /\ last.op = "updateMarketPrice"
    /\ last.price = 1
    /\ orderIdCounter = 1
    /\ pendingLimitOrders = <<>>
    /\ Len(trades) = 1
    /\ trades[1].orderType = "LIMIT"
    /\ trades[1].action = "BUY"
    /\ trades[1].price = 1
    /\ Len(positions) = 1
    /\ positions[1].entryPrice = 1
    /\ positions[1].quantity = trades[1].quantity
    /\ balance = InitialBalance - Reserve(1, trades[1].quantity)

\* C21: price improvement is passed to the account holder exactly: if a
\* LIMIT BUY of quantity q is submitted at balance B and then, with no other
\* operation in between, filled by a tick at price p <= limitPrice, the
\* resulting balance is B - p*q*(1+rate/100): the account pays the execution
\* price and not the limit price.  On the fresh account B is the initial
\* balance; in general the submission leaves the balance at B and the fill
\* takes p*q*(1+rate/100) from the balance it finds.
C21_PriceImprovementPassedOn ==
    [][/\ (Submitted("LIMIT") /\ last'.action = "BUY"
           /\ last'.err = NoError)
            => balance' = balance
       /\ OneBuyFilled
            => \A i \in Triggered(last'.symbol, last'.price) :
                 LET q == pendingLimitOrders[i].quantity
                     p == last'.price
                 IN /\ balance' = balance - Reserve(p, q)
                    /\ (trades = <<>> /\ orderIdCounter = 1)
                         => balance' = InitialBalance - Reserve(p, q)
      ]_vars

\* the first operation on the account was a LIMIT BUY of 1 and the second a
\* tick at price 1 that filled it: the balance is the initial balance less
\* 1.001, whatever the limit price was
C21_Witness ==
    /\ last.op = "updateMarketPrice"
    /\ last.price = 1
    /\ last.warned = <<>>
    /\ orderIdCounter = 1
    /\ pendingLimitOrders = <<>>
    /\ trades = <<[symbol |-> last.symbol, action |-> "BUY", price |-> 1,
                   quantity |-> 1, commission |-> 1, orderType |-> "LIMIT"]>>
    /\ balance = InitialBalance - 1001

\* C22: cancelLimitOrder(id) returns true exactly when an order with that
\* id is pending, and then removes that order and only that order (the other
\* pending orders keep their relative order); when no such order is pending
\* it returns false and changes nothing.
C22_CancelRemovesExactlyThatOrder ==
    [][last'.op = "cancelLimitOrder"
        => IF last'.orderId \in PendingIds
           THEN /\ last'.ret = TRUE
                /\ pendingLimitOrders' =
                     SelectSeq(pendingLimitOrders,
                               LAMBDA o : o.id # last'.orderId)
                /\ Len(pendingLimitOrders') = Len(pendingLimitOrders) - 1
           ELSE /\ last'.ret = FALSE
                /\ portfolio' = portfolio
                /\ orderIdCounter' = orderIdCounter]_vars

\* the second of three pending orders was cancelled: the first and the
\* third are left, in that order
C22_Witness ==
    /\ last.op = "cancelLimitOrder"
    /\ last.orderId = 2
    /\ last.ret = TRUE
    /\ orderIdCounter = 3
    /\ Len(pendingLimitOrders) = 2
    /\ pendingLimitOrders[1].id = 1
    /\ pendingLimitOrders[2].id = 3

\* the step cancels the order submitted last, which is still pending
CancelsNewest ==
    /\ last'.op = "cancelLimitOrder"
    /\ last'.orderId = orderIdCounter
    /\ pendingLimitOrders # <<>>
    /\ pendingLimitOrders[Len(pendingLimitOrders)].id = orderIdCounter

\* C23: round trip: submitting a LIMIT order (BUY or SELL) and immediately
\* cancelling it restores balance, positions and trades to exactly their
\* values of before the submission and leaves the pending orders as they
\* were.  The submission keeps balance, positions and trades and puts the
\* order, under the id just issued, behind the pending orders; handing the
\* result back changes nothing; the cancellation of that id keeps balance,
\* positions and trades and takes the order from the end again.
C23_SubmitThenCancelRestores ==
    [][/\ (Submitted("LIMIT") /\ last'.err = NoError)
            => /\ balance' = balance
               /\ positions' = positions
               /\ trades' = trades
               /\ pendingLimitOrders' # <<>>
               /\ SubSeq(pendingLimitOrders', 1,
                         Len(pendingLimitOrders') - 1) = pendingLimitOrders
               /\ pendingLimitOrders'[Len(pendingLimitOrders')].id
                    = orderIdCounter'
       /\ last' = Idle => portfolio' = portfolio
       /\ CancelsNewest
            => /\ last'.ret = TRUE
               /\ balance' = balance
               /\ positions' = positions
               /\ trades' = trades
               /\ pendingLimitOrders' =
                    SubSeq(pendingLimitOrders, 1,
                           Len(pendingLimitOrders) - 1)
      ]_vars

\* after a purchase a LIMIT order was submitted behind an older pending
\* order and cancelled again: the balance is what the purchase left, the
\* position and the trade are those of the purchase and the older order is
\* the only one pending
C23_Witness ==
    /\ last.op = "cancelLimitOrder"
    /\ last.orderId = 2
    /\ last.ret = TRUE
    /\ orderIdCounter = 2
    /\ PendingIds = {1}
    /\ Len(trades) = 1
    /\ trades[1].action = "BUY"
    /\ Len(positions) = 1
    /\ balance = InitialBalance
                 - Reserve(trades[1].price, trades[1].quantity)

RECURSIVE NetCashFlow(_)
\* what a sequence of trades paid into the balance (negative: took out): a
\* BUY costs price*quantity plus its commission, a SELL brings
\* price*quantity less its commission
NetCashFlow(ts) ==
    IF ts = <<>> THEN 0
    ELSE LET t == Head(ts)
         IN (IF t.action = "BUY"
             THEN 0 - (Value(t.price, t.quantity) + t.commission)
             ELSE Value(t.price, t.quantity) - t.commission)
            + NetCashFlow(Tail(ts))

RECURSIVE ReservedFor(_)
\* the sum over the BUY orders of a sequence of limitPrice*quantity*(1+rate/100)
ReservedFor(orders) ==
    IF orders = <<>> THEN 0
    ELSE (IF Head(orders).action = "BUY"
          THEN Reserve(Head(orders).limitPrice, Head(orders).quantity)
          ELSE 0)
         + ReservedFor(Tail(orders))

\* C24: in every reachable state the cash withheld from the balance on
\* account of resting buy orders (initial balance plus the net cash flow of
\* all recorded trades, minus the current balance) equals the sum over all
\* pending LIMIT BUY orders of limitPrice*quantity*(1+rate/100).
C24_WithheldCashMatchesPendingBuys ==
    InitialBalance + NetCashFlow(trades) - balance
      = ReservedFor(pendingLimitOrders)

\* the ids of the orders the step takes out of the pending orders
Leaving == PendingIds \ PendingIds'

\* C25: each accepted limit order leaves the pending orders exactly once, by
\* execution or by cancellation and never both: an order that has left does
\* not come back; cancelLimitOrder on the id of an order that is no longer
\* pending (filled or cancelled before) returns false and changes nothing; a
\* cancellation executes nothing; and the limit fills of a resolution are as
\* many as the orders it takes out of the pending orders, so that an order
\* cancelled earlier gets no trade and no position from a later tick.
C25_OrderLeavesExactlyOnce ==
    [][/\ \A id \in PendingIds' : id <= orderIdCounter => id \in PendingIds
       /\ (last'.op = "cancelLimitOrder" /\ last'.orderId \notin PendingIds)
            => /\ last'.ret = FALSE
               /\ portfolio' = portfolio
       /\ last'.op = "cancelLimitOrder"
            => /\ trades' = trades
               /\ positions' = positions
               /\ balance' = balance
               /\ Leaving \subseteq {last'.orderId}
       /\ Tick
            => /\ Cardinality(Fills) = Cardinality(Leaving)
               /\ Len(positions') <= Len(positions) + Cardinality(Leaving)
                    + (IF last'.op = "executeTrade" THEN 1 ELSE 0)
      ]_vars

\* the only order ever placed was filled, and a cancellation of its id
\* afterwards returned false
C25_Witness ==
    /\ last.op = "cancelLimitOrder"
    /\ last.orderId = 1
    /\ last.ret = FALSE
    /\ orderIdCounter = 1
    /\ pendingLimitOrders = <<>>
    /\ Len(trades) = 1
    /\ trades[1].orderType = "LIMIT"

\* C26: the trade log is append-only: across any operation the previous
\* trades sequence is a prefix of the new one, with every earlier trade
\* unchanged in all fields; the only orderType amendment is MARKET to LIMIT
\* on the trade just appended by a limit fill, so the trade a market order
\* produces is logged as MARKET with the fields of the order and is never
\* re-tagged LIMIT.
C26_TradeLogAppendOnly ==
    [][/\ Len(trades') >= Len(trades)
       /\ SubSeq(trades', 1, Len(trades)) = trades
       /\ (Submitted("MARKET") /\ last'.err = NoError)
            => /\ Len(trades') > Len(trades)
               /\ trades'[Len(trades) + 1] =
                    [symbol |-> last'.symbol, action |-> last'.action,
                     price |-> last'.price, quantity |-> last'.quantity,
                     commission |-> Fee(last'.price, last'.quantity),
                     orderType |-> "MARKET"]
       /\ last'.op \in {"cancelLimitOrder", "idle"} => trades' = trades
       /\ Submitted("LIMIT") => trades' = trades
      ]_vars

\* a tick tried a pending order and failed while the newest trade in the
\* log was that of a market order: the trade is still tagged MARKET
C26_Witness ==
    /\ last.op = "updateMarketPrice"
    /\ last.warned # <<>>
    /\ trades # <<>>
    /\ trades[Len(trades)].orderType = "MARKET"

\* C27: a successful MARKET order for symbol S at price p is followed,
\* within the same executeTrade call, by the resolution of the pending
\* orders of S against p: the market trade is appended first, then every
\* triggered pending order of S is attempted (it is filled, or reported as
\* failed), and the snapshot returned reflects those limit fills; pending
\* orders of other symbols are not checked.
C27_MarketOrderResolvesPendingOrders ==
    [][(Submitted("MARKET") /\ last'.err = NoError)
        => LET s == last'.symbol
               p == last'.price
               n == Len(trades)
               filled == Cardinality(Triggered(s, p)) - Cardinality(Failed)
           IN /\ Len(trades') = n + 1 + filled
              /\ trades'[n + 1].orderType = "MARKET"
              /\ trades'[n + 1].action = last'.action
              /\ \A k \in (n + 2)..Len(trades') :
                   /\ trades'[k].orderType = "LIMIT"
                   /\ trades'[k].symbol = s
                   /\ trades'[k].price = p
              /\ \A i \in Triggered(s, p) :
                   \/ pendingLimitOrders[i].id \in Failed
                   \/ pendingLimitOrders[i].id \notin PendingIds'
              /\ Returned'.trades = trades'
              /\ Len(Returned'.pendingLimitOrders)
                   = Len(pendingLimitOrders) - filled
              /\ SelectSeq(pendingLimitOrders', LAMBDA o : o.symbol # s)
                   = SelectSeq(pendingLimitOrders, LAMBDA o : o.symbol # s)
      ]_vars

\* a MARKET BUY went through at a price that triggered the one pending
\* order, a BUY of its symbol: the log holds the market trade and then the
\* limit fill, and no order is pending
C27_Witness ==
    /\ last.op = "executeTrade"
    /\ last.orderType = "MARKET"
    /\ last.action = "BUY"
    /\ last.err = NoError
    /\ last.warned = <<>>
    /\ orderIdCounter = 1
    /\ Returned.pendingLimitOrders = <<>>
    /\ Len(Returned.trades) = 2
    /\ Returned.trades[1].orderType = "MARKET"
    /\ Returned.trades[2].orderType = "LIMIT"
    /\ Returned.trades[2].symbol = last.symbol
    /\ Returned.trades[2].price = last.price
    /\ Len(Returned.positions) = 2

\* C28: query results are defensive copies: no mutation a caller performs
\* on what getPortfolio, getPendingLimitOrders or
\* getPendingLimitOrdersBySymbol return - including changing fields of the
\* returned position, trade or order records - alters the internal state of
\* the engine.
C28_QueryResultsAreCopies ==
    [][last'.op = "callerWrite" => portfolio' = portfolio]_vars

\* C29: a validated webhook carrying orderType LIMIT and a limitPrice,
\* processed by processTradingViewWebhook, results in a resting limit order:
\* when it is accepted, one pending order is created and no trade or
\* position is produced by the call.
C29_LimitWebhookRests ==
    [][(/\ last'.op = "processTradingViewWebhook"
        /\ last'.webhook.orderType = Present("LIMIT")
        /\ last'.webhook.limitPrice # Absent
        /\ last'.err = NoError)
         => /\ Len(pendingLimitOrders') = Len(pendingLimitOrders) + 1
            /\ trades' = trades
            /\ positions' = positions]_vars

\* the trades a step appends to the log
Appended == SubSeq(trades', Len(trades) + 1, Len(trades'))

\* C30: every trade appended, by a market fill or by a limit fill, records
\* commission = execution price * quantity * rate / 100 (the rate is a
\* percentage), and that amount is what the fill charges the balance on top
\* of the cost of a BUY or takes from the proceeds of a SELL.
C30_CommissionIsPercentageOfValue ==
    [][/\ \A k \in 1..Len(Appended) :
            Appended[k].commission = Fee(Appended[k].price, Appended[k].quantity)
       /\ balance' - balance = NetCashFlow(Appended)]_vars

\* a market BUY and a limit SELL have filled, each charged its commission
C30_Witness ==
    /\ \E i, j \in 1..Len(trades) :
         /\ trades[i].orderType = "MARKET" /\ trades[i].action = "BUY"
         /\ trades[j].orderType = "LIMIT" /\ trades[j].action = "SELL"
         /\ trades[j].commission = Fee(trades[j].price, trades[j].quantity)
         /\ trades[j].commission > 0
    /\ balance = InitialBalance + NetCashFlow(trades)

\* the number of pending orders of symbol s in the portfolio pf
PendingOf(pf, s) ==
    Cardinality({i \in 1..Len(pf.pendingLimitOrders) :
                    pf.pendingLimitOrders[i].symbol = s})

ValidationErrors ==
    {InsufficientBalance, NoMatchingPosition, InsufficientPosition,
     InsufficientBalanceLimit, MissingLimitPrice}

\* C32: when the engine rejects a webhook order with a validation-class
\* error (insufficient balance, no matching position, insufficient
\* position, missing limit price), the webhook adapter answers HTTP 400.
C32_RejectionAnswers400 ==
    [][(last'.op = "webhookRouter.post" /\ last'.err \in ValidationErrors)
         => last'.status = 400]_vars

\* the outcome of a call of the engine run alone, from its first statement
\* to its return
Alone(pf, counter, request) ==
    CASE request.op = "executeTrade" ->
           LET r == ExecuteTradeResult(pf, counter, request)
           IN [pf |-> r.pf, counter |-> r.counter, err |-> r.err]
      [] request.op = "updateMarketPrice" ->
           [pf |-> CheckAndExecuteLimitOrders(pf, request.symbol,
                                              request.price).pf,
            counter |-> counter, err |-> NoError]
      [] request.op = "cancelLimitOrder" ->
           [pf |-> [pf EXCEPT !.pendingLimitOrders =
                      SelectSeq(@, LAMBDA o : o.id # request.orderId)],
            counter |-> counter, err |-> NoError]

RECURSIVE Serial(_, _, _)
\* the outcome of the calls run one after the other, each alone: the state
\* they leave and the error of each
Serial(pf, counter, requests) ==
    IF requests = <<>>
    THEN [pf |-> pf, counter |-> counter, errs |-> <<>>]
    ELSE LET a == Alone(pf, counter, Head(requests))
             rest == Serial(a.pf, a.counter, Tail(requests))
         IN [rest EXCEPT !.errs = <<a.err>> \o @]

RECURSIVE NetQuantity(_, _)
\* the quantity of symbol s the trades ts bought less the quantity they sold
NetQuantity(ts, s) ==
    IF ts = <<>> THEN 0
    ELSE (IF Head(ts).symbol # s THEN 0
          ELSE IF Head(ts).action = "BUY" THEN Head(ts).quantity
          ELSE 0 - Head(ts).quantity)
         + NetQuantity(Tail(ts), s)

\* the state is one between operations: the balance is what the trade log
\* accounts for and the positions hold what the trades bought and did not
\* sell
Settled ==
    /\ balance = InitialBalance + NetCashFlow(trades)
    /\ \A s \in Symbols : Held(s) = NetQuantity(trades, s)

\* C33: every public operation of the engine is atomic with respect to
\* concurrent requests: the calls run without a suspension point, so no
\* request is taken up while another call is in progress or on an
\* intermediate state (such as a position appended with the balance not yet
\* debited), and whenever no call is in progress the state and the outcome
\* of every request served are those of the requests run one after the
\* other, each alone, in the order they were taken up.
C33_OperationsAreAtomic ==
    /\ [][Len(last'.running) > Len(last.running)
            => last.running = <<>> /\ Settled]_vars
    /\ [](last.running = <<>>
            => LET s == Serial([balance |-> InitialBalance, positions |-> <<>>,
                                trades |-> <<>>, pendingLimitOrders |-> <<>>],
                               0,
                               [i \in 1..Len(last.served) |->
                                  last.served[i].request])
               IN /\ portfolio = s.pf
                  /\ orderIdCounter = s.counter
                  /\ s.errs = [i \in 1..Len(last.served) |->
                                 last.served[i].err])

\* a market BUY is between its statements (the position appended, the
\* balance debited, the trade not yet logged) while another request waits,
\* after an earlier request has been served
C33_Witness ==
    /\ last.queue # <<>>
    /\ Len(last.running) = 1
    /\ last.running[1].pc = "trades.push"
    /\ last.running[1].request.action = "BUY"
    /\ ~Settled

\* the number of pending orders the step executes: those that leave the
\* pending orders otherwise than by a cancellation
Filled == IF last'.op = "cancelLimitOrder" THEN 0 ELSE Cardinality(Leaving)

\* C34: exactly one trade is recorded per fill and none otherwise: the
\* length of trades grows by one for each successful market execution and
\* for each limit fill, is unchanged by limit-order creation, cancellation,
\* failed operations and untriggered price ticks, and never decreases.
C34_OneTradePerFill ==
    [][/\ Len(trades') >= Len(trades)
       /\ Len(trades') - Len(trades)
            = (IF Submitted("MARKET") /\ last'.err = NoError THEN 1 ELSE 0)
              + Filled
       /\ Cardinality(Fills) = Filled
       /\ Submitted("LIMIT") => Len(trades') = Len(trades)
       /\ last'.op = "cancelLimitOrder" => Len(trades') = Len(trades)
       /\ (last'.op = "executeTrade" /\ last'.err # NoError)
            => Len(trades') = Len(trades)
       /\ (last'.op = "updateMarketPrice"
           /\ Triggered(last'.symbol, last'.price) = {})
            => Len(trades') = Len(trades)
       /\ (last'.op = "updateMarketPrice" /\ Failed # {})
            => Len(trades') - Len(trades)
                 = Cardinality(Triggered(last'.symbol, last'.price))
                   - Cardinality(Failed)
      ]_vars

\* a tick has triggered two orders: one has failed and recorded nothing, the
\* other has filled and recorded its one trade
C34_Witness ==
    /\ last.op = "updateMarketPrice"
    /\ Len(last.warned) = 1
    /\ Len(pendingLimitOrders) = 1
    /\ Len(trades) = 2
    /\ trades[2].orderType = "LIMIT"

PositionsNotOf(pf, s) == SelectSeq(pf.positions, LAMBDA pos : pos.symbol # s)

\* C36: inventory conservation: in every reachable state and for every
\* symbol, the sum of the quantities of the open positions of that symbol
\* equals the total quantity of its BUY trades minus the total quantity of
\* its SELL trades; a sell never draws on a position of another symbol.
C36_InventoryConserved ==
    /\ [](\A s \in Symbols : Held(s) = NetQuantity(trades, s))
    /\ [][\A s \in Symbols :
            (Appended # <<>>
             /\ \A k \in 1..Len(Appended) :
                   Appended[k].symbol = s /\ Appended[k].action = "SELL")
              => PositionsNotOf(portfolio', s) = PositionsNotOf(portfolio, s)
         ]_vars

\* both symbols are held and part of the BTC bought first has been sold
C36_Witness ==
    /\ Len(positions) = 2
    /\ positions[1].symbol = "BTC"
    /\ positions[2].symbol = "ETH"
    /\ Held("BTC") = 1
    /\ \E k \in 1..Len(trades) :
          trades[k].symbol = "BTC" /\ trades[k].action = "SELL"

\* C37: resting sell orders are always backed by inventory: in every
\* reachable state and for every symbol, the total quantity of the pending
\* SELL limit orders of that symbol is at most the total quantity of the
\* open positions of that symbol.
C37_RestingSellsBacked ==
    \A s \in Symbols : RestingSells(s) <= Held(s)

\* C38: an accepted LIMIT SELL is executable: if a LIMIT SELL for symbol S
\* is accepted and the very next operation is a price tick for S at a price
\* >= its limit price, the order is filled by that tick: it is removed from
\* the pending orders, the position is reduced and a LIMIT SELL trade is
\* appended.  Stated at the step that accepts the order, for the tick run
\* on the state the acceptance leaves.
C38_AcceptedLimitSellExecutable ==
    [][(/\ Submitted("LIMIT")
        /\ last'.err = NoError
        /\ last'.action = "SELL")
         => \A p \in Prices :
              p >= last'.limitPrice[1]
                => LET t == CheckAndExecuteLimitOrders(portfolio', last'.symbol, p)
                       held == SumQuantity(PositionsOf(portfolio', last'.symbol))
                   IN /\ \A i \in 1..Len(t.pf.pendingLimitOrders) :
                            t.pf.pendingLimitOrders[i].id # orderIdCounter'
                      /\ SumQuantity(PositionsOf(t.pf, last'.symbol))
                           <= held - last'.quantity
                      /\ \E k \in (Len(trades') + 1)..Len(t.pf.trades) :
                            /\ t.pf.trades[k].orderType = "LIMIT"
                            /\ t.pf.trades[k].action = "SELL"
                            /\ t.pf.trades[k].symbol = last'.symbol
                            /\ t.pf.trades[k].quantity = last'.quantity
      ]_vars

\* C39: a price tick is idempotent: calling updateMarketPrice(S, p) twice
\* in a row yields the same balance, positions, trades and pending orders
\* as calling it once.  Stated at the step of the first call, for the second
\* call run on the state the first one leaves.
C39_TickIdempotent ==
    [][last'.op = "updateMarketPrice"
         => CheckAndExecuteLimitOrders(portfolio', last'.symbol,
                                       last'.price).pf = portfolio']_vars

\* the pending orders of the symbols other than s, in their order
OrdersNotOf(pf, s) ==
    SelectSeq(pf.pendingLimitOrders, LAMBDA o : o.symbol # s)

\* C40: symbols are isolated except through the shared balance: a market
\* order or a price tick for symbol S leaves every position and every
\* pending order of any other symbol unchanged and appends no trade for
\* another symbol.
C40_SymbolsIsolated ==
    [][(Submitted("MARKET") \/ last'.op = "updateMarketPrice")
         => /\ PositionsNotOf(portfolio', last'.symbol)
                 = PositionsNotOf(portfolio, last'.symbol)
            /\ OrdersNotOf(portfolio', last'.symbol)
                 = OrdersNotOf(portfolio, last'.symbol)
            /\ \A k \in 1..Len(Appended) :
                  Appended[k].symbol = last'.symbol]_vars

\* a tick of BTC has filled an order of BTC while ETH is held and an order
\* of ETH that the price of the tick would trigger is pending
C40_Witness ==
    /\ last.op = "updateMarketPrice"
    /\ last.symbol = "BTC"
    /\ trades # <<>>
    /\ trades[Len(trades)].orderType = "LIMIT"
    /\ trades[Len(trades)].symbol = "BTC"
    /\ Held("ETH") > 0
    /\ \E i \in 1..Len(pendingLimitOrders) :
          ~Untouched(pendingLimitOrders[i], "ETH", last.price)

====
